---- MODULE Spec2Model ----
(***************************************************************************)
(* Model of the Zawa message relay (src/main.py): a FastAPI application    *)
(* with two POST endpoints that validate a payload, build a JSON body and  *)
(* forward it with requests.post to the upstream messaging API.            *)
(*                                                                         *)
(* Python strings are modelled as sequences of tokens (<<>> is the empty   *)
(* string, \o is concatenation).  JSON values are records                  *)
(* [kind, s, n, d]: kind names the JSON type, s holds a string's tokens,   *)
(* n an integer's value and d an object's members (a function from keys).  *)
(***************************************************************************)
EXTENDS Integers, Sequences, FiniteSets, TLC

(* ---------------------------------------------------------------------- *)
(* Bounds                                                                  *)
(* ---------------------------------------------------------------------- *)
NumReq == 2
MaxStock == 12

Req == 1..NumReq

(* ---------------------------------------------------------------------- *)
(* JSON values and Python dicts                                            *)
(* ---------------------------------------------------------------------- *)
EmptyDict == [k \in {} |-> 0]

JMissing == [kind |-> "missing", s |-> <<>>, n |-> 0, d |-> EmptyDict]
JNull == [kind |-> "null", s |-> <<>>, n |-> 0, d |-> EmptyDict]
JStr(s) == [kind |-> "str", s |-> s, n |-> 0, d |-> EmptyDict]
JInt(n) == [kind |-> "int", s |-> <<>>, n |-> n, d |-> EmptyDict]
JArray == [kind |-> "array", s |-> <<>>, n |-> 0, d |-> EmptyDict]
JDict(d) == [kind |-> "dict", s |-> <<>>, n |-> 0, d |-> d]

\* d[k] = v of a Python dict: k is added, or its value replaced.
DictSet(d, k, v) == [x \in (DOMAIN d) \cup {k} |-> IF x = k THEN v ELSE d[x]]

\* d.update(e), which is what {**e} does inside a dict display.
DictUpdate(d, e) == [x \in (DOMAIN d) \cup (DOMAIN e) |-> IF x \in DOMAIN e THEN e[x] ELSE d[x]]

(* ---------------------------------------------------------------------- *)
(* Credentials: os.getenv gives None or a string                           *)
(* ---------------------------------------------------------------------- *)
None == [isNone |-> TRUE, s |-> <<>>]
EnvStr(s) == [isNone |-> FALSE, s |-> s]
EnvValues == {None, EnvStr(<<>>), EnvStr(<<"cred">>)}

\* Python's `not x` for an Optional[str]: None and "" are falsy.
Falsy(x) == x.isNone \/ x.s = <<>>

(* ---------------------------------------------------------------------- *)
(* Request validation (pydantic models, lines 92-104)                      *)
(* ---------------------------------------------------------------------- *)
\* The request bodies enumerated below carry, in each field, a JSON value that
\* every pydantic release treats alike: an absent key, null, a string, an
\* integer where an integer is declared, an array or object where a string is
\* declared, a non-empty string where an object is declared.
\* A field declared `str = Field(...)`: required, a JSON string of any length.
StrField(v) == v.kind = "str"

\* A field declared `int = Field(...)`: required, a JSON integer.
IntField(v) == v.kind = "int"

\* A field declared `Dict[str, Any] = Field(...)`: required, a JSON object.
DictField(v) == v.kind = "dict"

\* The fields a request body may carry; a key that is absent is JMissing.
RawRequest(phone, type, content, pic_name, material_id, short_desc, stock) ==
  [phone |-> phone, type |-> type, content |-> content, pic_name |-> pic_name,
   material_id |-> material_id, short_desc |-> short_desc, stock |-> stock]

NoRequest == RawRequest(JMissing, JMissing, JMissing, JMissing, JMissing, JMissing, JMissing)

\* GenericMessagePayload with content declared optional.
GenericMessagePayloadValidContentOptional(raw) ==
  StrField(raw.phone) /\ StrField(raw.type)

GenericMessagePayloadValid(raw) ==
  StrField(raw.phone) /\ StrField(raw.type) /\ DictField(raw.content)

\* The validated model: message_type is filled from the key "type" (its alias).
GenericMessagePayload(raw) ==
  [phone |-> raw.phone.s, message_type |-> raw.type.s, content |-> raw.content.d]

StockNotificationPayloadValid(raw) ==
  /\ StrField(raw.phone) /\ StrField(raw.pic_name) /\ StrField(raw.material_id)
  /\ StrField(raw.short_desc) /\ IntField(raw.stock)

StockNotificationPayload(raw) ==
  [phone |-> raw.phone.s, pic_name |-> raw.pic_name.s, material_id |-> raw.material_id.s,
   short_desc |-> raw.short_desc.s, stock |-> raw.stock.n]

(* ---------------------------------------------------------------------- *)
(* Body construction                                                       *)
(* ---------------------------------------------------------------------- *)
\* Lines 118-122 with the fixed fields written after the content.
GenericBodyFixedLast(payload) ==
  DictSet(DictSet(payload.content, "phone", JStr(payload.phone)),
          "type", JStr(payload.message_type))

\* Lines 118-122: {"phone": ..., "type": ..., **payload.content}.
GenericBody(payload) ==
  DictUpdate(DictSet(DictSet(EmptyDict, "phone", JStr(payload.phone)),
                     "type", JStr(payload.message_type)),
             payload.content)

DigitChars == <<"0", "1", "2", "3", "4", "5", "6", "7", "8", "9">>

RECURSIVE NatToStr(_)
NatToStr(n) ==
  IF n < 10 THEN <<DigitChars[n + 1]>>
  ELSE NatToStr(n \div 10) \o <<DigitChars[(n % 10) + 1]>>

\* format(stock) of a Python int inside an f-string: decimal, "-" when negative.
IntToStr(n) == IF n < 0 THEN <<"-">> \o NatToStr(0 - n) ELSE NatToStr(n)

\* The literal pieces of the f-string of lines 141-149 (the warning sign
\* U+26A0 U+FE0F is written out).
T0 == "(U+26A0 U+FE0F) *MINIMUM STOCK ALERT* (U+26A0 U+FE0F)\n\nHello *"
T1 == "*,\n\nThe following material has fallen below the minimum stock level:\n\n*- Material:* "
T2 == "\n*- Material ID:* "
T3 == "\n*- CURRENT STOCK:* *"
T4 == "*\n\nPlease take *IMMEDIATE ACTION* to replenish the stock."

\* Lines 141-149 with material_id and short_desc exchanged.
messageSwapped(payload) ==
  <<T0>> \o payload.pic_name \o <<T1>> \o payload.material_id \o <<T2>>
    \o payload.short_desc \o <<T3>> \o IntToStr(payload.stock) \o <<T4>>

\* Lines 141-149.
message(payload) ==
  <<T0>> \o payload.pic_name \o <<T1>> \o payload.short_desc \o <<T2>>
    \o payload.material_id \o <<T3>> \o IntToStr(payload.stock) \o <<T4>>

\* Lines 151-155.
StockBody(payload) ==
  [phone |-> JStr(payload.phone), type |-> JStr(<<"text">>), text |-> JStr(message(payload))]

(* ---------------------------------------------------------------------- *)
(* Responses to the caller                                                 *)
(* ---------------------------------------------------------------------- *)
NoResponse == [status |-> 0, kind |-> "none", detail |-> <<>>, zawa_response |-> JNull]

\* raise HTTPException(status_code, detail): FastAPI answers status_code with
\* the body {"detail": detail}.
HTTPException(status_code, detail) ==
  [status |-> status_code, kind |-> "detail", detail |-> detail, zawa_response |-> JNull]

\* A request body that fails the pydantic model: FastAPI answers 422.
RequestValidationError ==
  [status |-> 422, kind |-> "validation", detail |-> <<>>, zawa_response |-> JNull]

\* An exception no handler catches: the server answers 500 Internal Server Error.
InternalServerError ==
  [status |-> 500, kind |-> "internal", detail |-> <<>>, zawa_response |-> JNull]

\* Lines 133 and 164: a returned dict is answered with status 200.
SuccessEnvelope(response_data) ==
  [status |-> 200, kind |-> "success", detail |-> <<>>, zawa_response |-> response_data]

\* Lines 57-60 and 124-127.
ConfigError ==
  HTTPException(500, <<"ZAWA_INSTANCE_ID and ZAWA_SESSION_ID must be set in the environment or .env file.">>)

(* ---------------------------------------------------------------------- *)
(* The upstream call (call_zawa_api, lines 75-88)                          *)
(* ---------------------------------------------------------------------- *)
NoOutcome == [kind |-> "none", status_code |-> 0, text |-> <<>>]

\* requests.post returned a response with this status and body text.
UpstreamResponse(status_code, text) ==
  [kind |-> "response", status_code |-> status_code, text |-> text]

\* requests.post raised a transport exception whose str() is text.
TransportError(text) == [kind |-> "exception", status_code |-> 0, text |-> text]

JsonObjectText == <<"{", "\"", "id", "\"", ":", "\"", "m1", "\"", "}">>
JsonEmptyObjectText == <<"{", "}">>
PlainText == <<"rate limited">>

UpstreamStatuses == {200, 204, 300, 429, 500}
UpstreamTexts == {JsonObjectText, JsonEmptyObjectText, PlainText, <<>>}
TransportErrors == {<<"Connection refused">>, <<"Read timed out">>}

UpstreamOutcomes ==
  {UpstreamResponse(c, x) : c \in UpstreamStatuses, x \in UpstreamTexts}
    \cup {TransportError(e) : e \in TransportErrors}

\* Response.raise_for_status (line 77): HTTPError for 4xx and 5xx only.
RaisesForStatus(status_code) == 400 <= status_code /\ status_code < 600

\* Whether response.json() (line 78) can decode the text: an object with no
\* member or with one string member.
JsonParses(text) ==
  \/ text = <<"{", "}">>
  \/ /\ Len(text) = 9
     /\ <<text[1], text[2], text[4], text[5], text[6], text[8], text[9]>>
          = <<"{", "\"", "\"", ":", "\"", "\"", "}">>

\* response.json() of a text that decodes.
ParseJson(text) ==
  IF Len(text) = 9 THEN JDict((text[3] :> JStr(<<text[7]>>))) ELSE JDict(EmptyDict)

\* Lines 79-83 answering 502 whatever the upstream status was.
HTTPErrorResponseBadGateway(outcome) ==
  HTTPException(502, <<"Error from Zawa API: ">> \o outcome.text)

\* Lines 79-83.
HTTPErrorResponse(outcome) ==
  HTTPException(outcome.status_code, <<"Error from Zawa API: ">> \o outcome.text)

\* Lines 84-88 answering 500 and dropping the exception's text.
RequestExceptionResponseOpaque(outcome) ==
  HTTPException(500, <<"Could not connect to Zawa API: ">>)

\* Lines 84-88.
RequestExceptionResponse(outcome) ==
  HTTPException(503, <<"Could not connect to Zawa API: ">> \o outcome.text)

JSONDecodeErrorText == <<"Expecting value: line 1 column 1 (char 0)">>

\* What the endpoint answers once requests.post has returned or raised
\* (lines 77-88, then line 133 or 164).  When response.json() cannot decode
\* the body it raises a JSONDecodeError, which the installed requests makes a
\* RequestException (caught at line 84) or a plain ValueError (caught nowhere):
\* decodeErrorCaught says which.
EndpointResult(outcome, decodeErrorCaught) ==
  IF outcome.kind = "exception" THEN RequestExceptionResponse(outcome)
  ELSE IF RaisesForStatus(outcome.status_code) THEN HTTPErrorResponse(outcome)
  ELSE IF JsonParses(outcome.text) THEN SuccessEnvelope(ParseJson(outcome.text))
  ELSE IF decodeErrorCaught
    THEN RequestExceptionResponse(TransportError(JSONDecodeErrorText))
    ELSE InternalServerError

\* Line 76 sending the request twice.
RequestsPostTwice(n) == n + 2

\* Line 76: one call of requests.post is one POST (no retry is configured).
RequestsPost(n) == n + 1

(* ---------------------------------------------------------------------- *)
(* State                                                                   *)
(* ---------------------------------------------------------------------- *)
VARIABLES
  ZAWA_INSTANCE_ID,  \* line 25
  ZAWA_SESSION_ID,   \* line 26
  lifespan,          \* whether the host of `app` runs its startup handlers
  server,            \* "starting", "serving" or "exited"
  pc,                \* per request: idle, pending, calling, responding, done
  loop,              \* the request whose handler holds the event loop, or 0
  endpoint,          \* per request: the route it was sent to
  raw,               \* per request: the JSON body received
  zawa_body,         \* per request: the dict built for the upstream
  upstream,          \* per request: what requests.post returned or raised
  response,          \* per request: the response computed for the caller
  posts,             \* per request: POSTs sent to the upstream
  responses          \* per request: responses sent to the caller

vars == <<ZAWA_INSTANCE_ID, ZAWA_SESSION_ID, lifespan, server, pc, loop, endpoint,
          raw, zawa_body, upstream, response, posts, responses>>

creds == <<ZAWA_INSTANCE_ID, ZAWA_SESSION_ID, lifespan>>

(* ---------------------------------------------------------------------- *)
(* Request bodies the clients send                                         *)
(* ---------------------------------------------------------------------- *)
Phone == <<"628123">>

ContentValues ==
  {JMissing, JNull, JInt(7), JStr(<<"hi">>), JDict(EmptyDict),
   JDict([text |-> JStr(<<"Hello">>)]),
   JDict([phone |-> JStr(<<"999">>), type |-> JStr(<<"image">>),
          image |-> JDict([url |-> JStr(<<"http://x/y.png">>)])])}

GenericInputs ==
  {RawRequest(p, t, c, JMissing, JMissing, JMissing, JMissing) :
     p \in {JMissing, JNull, JStr(<<>>), JStr(Phone)},
     t \in {JMissing, JArray, JStr(<<>>), JStr(<<"text">>)},
     c \in ContentValues}

StockValues == {0 - MaxStock, -1, 0, 5, MaxStock}

StockInputs ==
  {RawRequest(p, JMissing, JMissing, n, JStr(<<"CHEM-0042">>), JStr(<<"Hydrochloric Acid">>), s) :
     p \in {JMissing, JStr(Phone)},
     n \in {JStr(<<>>), JStr(<<"Budi">>)},
     s \in {JMissing, JNull} \cup {JInt(k) : k \in StockValues}}

(* ---------------------------------------------------------------------- *)
(* Initial states                                                          *)
(* ---------------------------------------------------------------------- *)
InitRequests ==
  /\ server = "starting"
  /\ pc = [r \in Req |-> "idle"]
  /\ loop = 0
  /\ endpoint = [r \in Req |-> "none"]
  /\ raw = [r \in Req |-> NoRequest]
  /\ zawa_body = [r \in Req |-> EmptyDict]
  /\ upstream = [r \in Req |-> NoOutcome]
  /\ response = [r \in Req |-> NoResponse]
  /\ posts = [r \in Req |-> 0]
  /\ responses = [r \in Req |-> 0]

\* `python main.py` (lines 168-172): uvicorn.run runs the startup handlers.
\* The environment may hold anything.
Init ==
  /\ ZAWA_INSTANCE_ID \in EnvValues
  /\ ZAWA_SESSION_ID \in EnvValues
  /\ lifespan = TRUE
  /\ InitRequests

\* `app` imported and served by any ASGI host (a test client, a parent
\* application that mounts it): the host may not run the startup handlers.
InitAnyHost ==
  /\ ZAWA_INSTANCE_ID \in EnvValues
  /\ ZAWA_SESSION_ID \in EnvValues
  /\ lifespan \in BOOLEAN
  /\ InitRequests

(* ---------------------------------------------------------------------- *)
(* Actions                                                                 *)
(* ---------------------------------------------------------------------- *)
\* Lines 29-36 checking for None only.
startup_event_raises_none_only == ZAWA_INSTANCE_ID.isNone \/ ZAWA_SESSION_ID.isNone

\* Lines 29-36: whether startup_event raises RuntimeError.
startup_event_raises == Falsy(ZAWA_INSTANCE_ID) \/ Falsy(ZAWA_SESSION_ID)

\* The host starts the application.  With the startup handlers run, a raise
\* in startup_event makes the server exit before it accepts a connection.
Startup ==
  /\ server = "starting"
  /\ server' = IF lifespan /\ startup_event_raises THEN "exited" ELSE "serving"
  /\ UNCHANGED <<creds, pc, loop, endpoint, raw, zawa_body, upstream, response,
                 posts, responses>>

\* A client connects and sends a request; it waits for the event loop.
Arrive(r) ==
  /\ server = "serving"
  /\ pc[r] = "idle"
  /\ pc' = [pc EXCEPT ![r] = "pending"]
  /\ UNCHANGED <<creds, server, loop, endpoint, raw, zawa_body, upstream, response,
                 posts, responses>>

\* The handler of r ends with the response resp, before requests.post.
Fail(r, resp) ==
  /\ response' = [response EXCEPT ![r] = resp]
  /\ pc' = [pc EXCEPT ![r] = "responding"]
  /\ UNCHANGED posts

\* call_zawa_api up to the call of requests.post (lines 56-76).
call_zawa_api(r, instance_id, session_id) ==
  IF instance_id.isNone \/ session_id.isNone
    THEN Fail(r, ConfigError)
    ELSE /\ posts' = [posts EXCEPT ![r] = RequestsPost(posts[r])]
         /\ pc' = [pc EXCEPT ![r] = "calling"]
         /\ UNCHANGED response

\* The event loop runs the handler of a pending request.  The handlers are
\* coroutines with no await in them, so the handler keeps the loop until its
\* response is sent.
Dispatch(r, route, body) ==
  /\ server = "serving"
  /\ pc[r] = "pending"
  /\ loop = 0
  /\ loop' = r
  /\ endpoint' = [endpoint EXCEPT ![r] = route]
  /\ raw' = [raw EXCEPT ![r] = body]
  /\ UNCHANGED <<creds, server, upstream, responses>>

\* POST /send-message/ (lines 109-133), up to the call of requests.post.
send_generic_message_endpoint(r) ==
  \E body \in GenericInputs :
    /\ Dispatch(r, "send-message", body)
    /\ IF ~GenericMessagePayloadValid(body)
         THEN Fail(r, RequestValidationError) /\ UNCHANGED zawa_body
         ELSE /\ zawa_body' = [zawa_body EXCEPT ![r] = GenericBody(GenericMessagePayload(body))]
              /\ IF Falsy(ZAWA_INSTANCE_ID) \/ Falsy(ZAWA_SESSION_ID)
                   THEN Fail(r, ConfigError)
                   ELSE call_zawa_api(r, ZAWA_INSTANCE_ID, ZAWA_SESSION_ID)

\* POST /send-stock-notification/ (lines 135-164), up to requests.post.
send_stock_notification_endpoint(r) ==
  \E body \in StockInputs :
    /\ Dispatch(r, "send-stock-notification", body)
    /\ IF ~StockNotificationPayloadValid(body)
         THEN Fail(r, RequestValidationError) /\ UNCHANGED zawa_body
         ELSE /\ zawa_body' = [zawa_body EXCEPT ![r] = StockBody(StockNotificationPayload(body))]
              /\ call_zawa_api(r, ZAWA_INSTANCE_ID, ZAWA_SESSION_ID)

\* requests.post returns or raises and the handler runs to its end
\* (lines 76-88, then line 133 or 164).
requests_post_returns(r) ==
  /\ pc[r] = "calling"
  /\ \E outcome \in UpstreamOutcomes, decodeErrorCaught \in BOOLEAN :
       /\ upstream' = [upstream EXCEPT ![r] = outcome]
       /\ response' = [response EXCEPT ![r] = EndpointResult(outcome, decodeErrorCaught)]
  /\ pc' = [pc EXCEPT ![r] = "responding"]
  /\ UNCHANGED <<creds, server, loop, endpoint, raw, zawa_body, posts, responses>>

\* The response is written to the caller; the request's objects are dropped
\* and the event loop is free again.
SendResponse(r) ==
  /\ pc[r] = "responding"
  /\ pc' = [pc EXCEPT ![r] = "done"]
  /\ responses' = [responses EXCEPT ![r] = @ + 1]
  /\ loop' = 0
  /\ endpoint' = [endpoint EXCEPT ![r] = "none"]
  /\ raw' = [raw EXCEPT ![r] = NoRequest]
  /\ zawa_body' = [zawa_body EXCEPT ![r] = EmptyDict]
  /\ upstream' = [upstream EXCEPT ![r] = NoOutcome]
  /\ response' = [response EXCEPT ![r] = NoResponse]
  /\ UNCHANGED <<creds, server, posts>>

Next ==
  \/ Startup
  \/ \E r \in Req : Arrive(r)
  \/ \E r \in Req : send_generic_message_endpoint(r)
  \/ \E r \in Req : send_stock_notification_endpoint(r)
  \/ \E r \in Req : requests_post_returns(r)
  \/ \E r \in Req : SendResponse(r)

Spec == Init /\ [][Next]_vars

SpecAnyHost == InitAnyHost /\ [][Next]_vars

(* ---------------------------------------------------------------------- *)
(* Properties                                                              *)
(* ---------------------------------------------------------------------- *)
\* needle occurs in hay as a contiguous run of tokens.
Contains(hay, needle) ==
  \E i \in 1..(Len(hay) - Len(needle) + 1) : SubSeq(hay, i, i + Len(needle) - 1) = needle

\* The handler of r has received the upstream's answer and computed a response.
Answered(r) == pc[r] = "responding" /\ upstream[r].kind = "response"

CredentialsMissing == Falsy(ZAWA_INSTANCE_ID) \/ Falsy(ZAWA_SESSION_ID)

\* r's body passed the validation of the endpoint it was sent to.
ValidRequest(r) ==
  \/ endpoint[r] = "send-message" /\ GenericMessagePayloadValid(raw[r])
  \/ endpoint[r] = "send-stock-notification" /\ StockNotificationPayloadValid(raw[r])

\* The response of r is the failure that relays the upstream's status and text.
RelaysUpstreamError(r) ==
  /\ response[r].kind = "detail"
  /\ response[r].status = upstream[r].status_code
  /\ Contains(response[r].detail, upstream[r].text)

\* C1 as stated: whenever the upstream answers with a status outside 200-299,
\* the caller receives a failure with that same status whose body contains the
\* upstream's response text.
C1_NonSuccessRelayed ==
  \A r \in Req :
    (Answered(r) /\ ~(upstream[r].status_code \in 200..299)) => RelaysUpstreamError(r)

\* C1 amended: whenever the upstream answers with a 4xx or 5xx status, the
\* caller receives a failure with that same status whose body contains the
\* upstream's response text.
C1_ErrorStatusRelayed ==
  \A r \in Req :
    (Answered(r) /\ upstream[r].status_code \in 400..599) => RelaysUpstreamError(r)

C1_Witness ==
  \E r \in Req :
    /\ Answered(r)
    /\ upstream[r] = UpstreamResponse(429, PlainText)
    /\ response[r].status = 429
    /\ response[r].detail = <<"Error from Zawa API: ", "rate limited">>

\* C2: with credentials present, whenever the upstream answers with a 2xx
\* status the caller receives 200 with the envelope {status: "success",
\* zawa_response: R}; a 2xx answer never produces a failure response.
C2_SuccessEnvelope ==
  \A r \in Req :
    (Answered(r) /\ ~CredentialsMissing /\ upstream[r].status_code \in 200..299)
      => /\ response[r].status = 200
         /\ response[r].kind = "success"
         /\ response[r].zawa_response.kind = "dict"

\* C3: on both endpoints, a request handled while the instance id or the
\* session id is absent or empty fails with 500 and sends no POST upstream.
C3_NoCallWithoutCredentials ==
  \A r \in Req :
    (CredentialsMissing /\ pc[r] \in {"calling", "responding"} /\ ValidRequest(r))
      => /\ posts[r] = 0
         /\ pc[r] = "responding"
         /\ response[r].status = 500

\* C4: when the process is started with the instance id or the session id
\* absent or empty, startup fails: the server never serves, no request is ever
\* handled and no upstream call is ever made.
C4_StartupRefuses ==
  CredentialsMissing =>
    /\ server \in {"starting", "exited"}
    /\ \A r \in Req : pc[r] = "idle" /\ posts[r] = 0 /\ responses[r] = 0

C4_Witness == server = "exited" /\ CredentialsMissing /\ ~ENABLED Next

\* C5: when the upstream call fails at the network level before any response
\* is received, the request fails with 503 and a message that embeds the
\* transport error's description.
C5_NetworkFailureIs503 ==
  \A r \in Req :
    (pc[r] = "responding" /\ upstream[r].kind = "exception")
      => /\ response[r].status = 503
         /\ response[r].kind = "detail"
         /\ Contains(response[r].detail, upstream[r].text)

C5_Witness ==
  \E r \in Req :
    /\ pc[r] = "responding"
    /\ upstream[r] = TransportError(<<"Connection refused">>)
    /\ response[r].status = 503

\* The body of r has been handed to requests.post.
Posted(r) == pc[r] \in {"calling", "responding"} /\ posts[r] >= 1

\* C6: for every valid generic message request (phone p, type t, content c)
\* the body sent upstream is the map over {phone, type} and the keys of c in
\* which every key of c maps to its value in c, and phone and type map to p
\* and t when c does not contain them.
C6_GenericBodyIsUnion ==
  \A r \in Req :
    (Posted(r) /\ endpoint[r] = "send-message") =>
      LET p == raw[r].phone.s
          t == raw[r].type.s
          c == raw[r].content.d
          b == zawa_body[r]
      IN /\ DOMAIN b = {"phone", "type"} \cup DOMAIN c
         /\ \A k \in DOMAIN c : b[k] = c[k]
         /\ ("phone" \notin DOMAIN c) => b["phone"] = JStr(p)
         /\ ("type" \notin DOMAIN c) => b["type"] = JStr(t)

C6_Witness ==
  \E r \in Req :
    /\ pc[r] = "calling" /\ endpoint[r] = "send-message"
    /\ raw[r].phone = JStr(Phone)
    /\ DOMAIN raw[r].content.d = {"phone", "type", "image"}
    /\ zawa_body[r]["phone"] = JStr(<<"999">>)
    /\ zawa_body[r]["type"] = JStr(<<"image">>)

IsDigit(ch) == \E i \in 1..10 : DigitChars[i] = ch

DigitValue(ch) == (CHOOSE i \in 1..10 : DigitChars[i] = ch) - 1

RECURSIVE DigitsValue(_)
DigitsValue(ds) ==
  IF ds = <<>> THEN 0
  ELSE 10 * DigitsValue(SubSeq(ds, 1, Len(ds) - 1)) + DigitValue(ds[Len(ds)])

\* ds is the decimal numeral of n: digits only, no leading zero, a "-" in
\* front exactly when n is negative.
IsDecimalOf(ds, n) ==
  LET neg == ds # <<>> /\ ds[1] = "-"
      mag == IF neg THEN Tail(ds) ELSE ds
  IN /\ mag # <<>>
     /\ \A i \in 1..Len(mag) : IsDigit(mag[i])
     /\ Len(mag) > 1 => mag[1] # "0"
     /\ neg => mag # <<"0">>
     /\ n = (IF neg THEN 0 - DigitsValue(mag) ELSE DigitsValue(mag))

\* C7: for every valid stock notification request the body sent upstream has
\* exactly the keys phone, type and text; phone is the request's phone, type is
\* "text", and text is the fixed template with pic_name, short_desc,
\* material_id and the decimal numeral of stock in that order.
C7_StockBodyIsTemplate ==
  \A r \in Req :
    (Posted(r) /\ endpoint[r] = "send-stock-notification") =>
      LET b == zawa_body[r]
          x == b["text"].s
          pn == raw[r].pic_name.s
          sd == raw[r].short_desc.s
          mi == raw[r].material_id.s
          i1 == 2 + Len(pn)
          i2 == i1 + 1 + Len(sd)
          i3 == i2 + 1 + Len(mi)
      IN /\ DOMAIN b = {"phone", "type", "text"}
         /\ b["phone"] = JStr(raw[r].phone.s)
         /\ b["type"] = JStr(<<"text">>)
         /\ b["text"].kind = "str"
         /\ Len(x) > i3 + 1
         /\ x[1] = T0 /\ SubSeq(x, 2, i1 - 1) = pn
         /\ x[i1] = T1 /\ SubSeq(x, i1 + 1, i2 - 1) = sd
         /\ x[i2] = T2 /\ SubSeq(x, i2 + 1, i3 - 1) = mi
         /\ x[i3] = T3 /\ IsDecimalOf(SubSeq(x, i3 + 1, Len(x) - 1), raw[r].stock.n)
         /\ x[Len(x)] = T4

C7_Witness ==
  \E r \in Req :
    /\ pc[r] = "calling" /\ endpoint[r] = "send-stock-notification"
    /\ raw[r].stock.n = 0 - MaxStock
    /\ raw[r].pic_name.s = <<"Budi">>
    /\ Contains(zawa_body[r]["text"].s, <<T3, "-">>)

\* r was sent to /send-message/ and its handler has started.
GenericHandled(r) == endpoint[r] = "send-message" /\ pc[r] \in {"calling", "responding"}

\* r is answered with a validation error and nothing was sent upstream.
RejectedUnsent(r) ==
  /\ posts[r] = 0
  /\ pc[r] = "responding"
  /\ response[r].kind = "validation"
  /\ response[r].status \in 400..499

\* C8 as stated: a generic message request is forwarded upstream only if phone
\* and type are non-empty strings and content is a map; any other request is
\* rejected with a 4xx validation error and causes no upstream call.
C8_NonEmptyFieldsRequired ==
  \A r \in Req :
    GenericHandled(r) =>
      LET wellFormed ==
            /\ raw[r].phone.kind = "str" /\ raw[r].phone.s # <<>>
            /\ raw[r].type.kind = "str" /\ raw[r].type.s # <<>>
            /\ raw[r].content.kind = "dict"
      IN /\ posts[r] >= 1 => wellFormed
         /\ ~wellFormed => RejectedUnsent(r)

\* C8 amended: a generic message request whose phone, type or content is
\* missing or null, whose phone or type is an array or object, or whose
\* content is a number or a non-empty string, is rejected with a 422 validation
\* error and causes no upstream call; a request is forwarded only if it has
\* none of these defects (an empty string is accepted as phone or type).
C8_MalformedRejected ==
  \A r \in Req :
    GenericHandled(r) =>
      LET malformed ==
            \/ raw[r].phone.kind \in {"missing", "null", "array", "dict"}
            \/ raw[r].type.kind \in {"missing", "null", "array", "dict"}
            \/ raw[r].content.kind \in {"missing", "null", "int"}
            \/ raw[r].content.kind = "str" /\ raw[r].content.s # <<>>
      IN /\ posts[r] >= 1 => ~malformed
         /\ malformed => (RejectedUnsent(r) /\ response[r].status = 422)

C8_Witness ==
  \E r \in Req :
    /\ GenericHandled(r)
    /\ raw[r].phone = JStr(Phone) /\ raw[r].type = JStr(<<"text">>)
    /\ raw[r].content = JMissing
    /\ RejectedUnsent(r)

C10_NoBlocking ==
  \A r, q \in Req :
    (r # q /\ pc[r] = "calling" /\ pc[q] = "pending")
      => ENABLED (send_generic_message_endpoint(q) \/ send_stock_notification_endpoint(q))

====
